---- MODULE Spec2Model ----
\* Model of server.js: the upgrade acceptor and the WebSocket bridge (wsAgent)
\* between a relay client (clientWs) and the realtime speech service (aiWs).
\*
\* A JS string is a sequence of code points, a Buffer a sequence of bytes, and a
\* frame on the wire a record [binary, data] whose data is a sequence of bytes.
EXTENDS Integers, Sequences, FiniteSets, TLC

\* ---------------------------------------------------------------- bounds
MaxMsgs == 2
MaxTicks == 1
LiveMsgs == 1
MaxSessions == 2
PairEvents == 2
MaxCalls == 2

\* ------------------------------------------------------- text conversions

IsCont(b) == b >= 128 /\ b < 192

\* Buffer.prototype.toString("utf8"): bytes to code points; a byte that starts
\* no well-formed sequence decodes to U+FFFD.
RECURSIVE Utf8Decode(_)
Utf8Decode(bytes) ==
  IF bytes = << >> THEN << >>
  ELSE LET b == Head(bytes)
           n == Len(bytes)
       IN IF b < 128 THEN <<b>> \o Utf8Decode(Tail(bytes))
          ELSE IF b >= 194 /\ b < 224 /\ n >= 2 /\ IsCont(bytes[2])
            THEN <<(b - 192) * 64 + (bytes[2] - 128)>> \o Utf8Decode(SubSeq(bytes, 3, n))
          ELSE IF b >= 224 /\ b < 240 /\ n >= 3 /\ IsCont(bytes[2]) /\ IsCont(bytes[3])
                  /\ (b = 224 => bytes[2] >= 160) /\ (b = 237 => bytes[2] < 160)
            THEN <<(b - 224) * 4096 + (bytes[2] - 128) * 64 + (bytes[3] - 128)>>
                 \o Utf8Decode(SubSeq(bytes, 4, n))
          ELSE IF b >= 240 /\ b < 245 /\ n >= 4 /\ IsCont(bytes[2]) /\ IsCont(bytes[3])
                  /\ IsCont(bytes[4])
                  /\ (b = 240 => bytes[2] >= 144) /\ (b = 244 => bytes[2] < 144)
            THEN <<(b - 240) * 262144 + (bytes[2] - 128) * 4096 + (bytes[3] - 128) * 64
                   + (bytes[4] - 128)>> \o Utf8Decode(SubSeq(bytes, 5, n))
          ELSE <<65533>> \o Utf8Decode(Tail(bytes))

\* The UTF-8 encoding ws applies to a string handed to send().
RECURSIVE Utf8Encode(_)
Utf8Encode(str) ==
  IF str = << >> THEN << >>
  ELSE LET c == Head(str)
       IN (IF c < 128 THEN <<c>>
           ELSE IF c < 2048 THEN <<192 + (c \div 64), 128 + (c % 64)>>
           ELSE IF c < 65536
             THEN <<224 + (c \div 4096), 128 + ((c \div 64) % 64), 128 + (c % 64)>>
           ELSE <<240 + (c \div 262144), 128 + ((c \div 4096) % 64),
                  128 + ((c \div 64) % 64), 128 + (c % 64)>>)
          \o Utf8Encode(Tail(str))

B64Alphabet ==
  <<65, 66, 67, 68, 69, 70, 71, 72, 73, 74, 75, 76, 77, 78, 79, 80, 81, 82, 83, 84, 85,
    86, 87, 88, 89, 90, 97, 98, 99, 100, 101, 102, 103, 104, 105, 106, 107, 108, 109,
    110, 111, 112, 113, 114, 115, 116, 117, 118, 119, 120, 121, 122, 48, 49, 50, 51, 52,
    53, 54, 55, 56, 57, 43, 47>>

B64Char(i) == B64Alphabet[i + 1]

\* Buffer.prototype.toString("base64"): three bytes to four characters, "="
\* padding on the last group.
RECURSIVE Base64(_)
Base64(bytes) ==
  LET n == Len(bytes)
  IN IF n = 0 THEN << >>
     ELSE IF n = 1
       THEN <<B64Char(bytes[1] \div 4), B64Char((bytes[1] % 4) * 16), 61, 61>>
     ELSE IF n = 2
       THEN <<B64Char(bytes[1] \div 4),
              B64Char((bytes[1] % 4) * 16 + (bytes[2] \div 16)),
              B64Char((bytes[2] % 16) * 4), 61>>
     ELSE <<B64Char(bytes[1] \div 4),
            B64Char((bytes[1] % 4) * 16 + (bytes[2] \div 16)),
            B64Char((bytes[2] % 16) * 4 + (bytes[3] \div 64)),
            B64Char(bytes[3] % 64)>> \o Base64(SubSeq(bytes, 4, n))

\* JSON.stringify of a string value: quoted, with the quote, the backslash and
\* the newline escaped.
RECURSIVE JsonEscape(_)
JsonEscape(str) ==
  IF str = << >> THEN << >>
  ELSE LET c == Head(str)
       IN (IF c = 34 THEN <<92, 34>>
           ELSE IF c = 92 THEN <<92, 92>>
           ELSE IF c = 10 THEN <<92, 110>>
           ELSE <<c>>) \o JsonEscape(Tail(str))

JsonString(str) == <<34>> \o JsonEscape(str) \o <<34>>

\* JSON.stringify of an object given as a sequence of <<key, rendered value>>.
RECURSIVE JsonMembers(_)
JsonMembers(kvs) ==
  IF kvs = << >> THEN << >>
  ELSE JsonString(kvs[1][1]) \o <<58>> \o kvs[1][2]
       \o (IF Len(kvs) > 1 THEN <<44>> ELSE << >>) \o JsonMembers(Tail(kvs))

JsonObject(kvs) == <<123>> \o JsonMembers(kvs) \o <<125>>

\* ---------------------------------------------------------- configuration

\* "/ws/agent", the bridge route, as a sequence of characters.
Route == <<"/", "w", "s", "/", "a", "g", "e", "n", "t">>

\* req.url of an upgrade request; NoUrl is a request whose url is undefined.
NoUrl == <<"undefined">>
Urls ==
  { Route,
    Route \o <<"?", "x">>,
    Route \o <<"X">>,
    Route \o <<"/", "x">>,
    SubSeq(Route, 1, 8),
    <<"/">>,
    <<"/", "x">> \o Route,
    <<"/", "W", "S", "/", "a", "g", "e", "n", "t">>,
    NoUrl }

\* VOICE, PERSONA_PROMPT and AGENT_NAME come from the environment; the model
\* runs with the one-character values "v", "P" (followed by a quote, to exercise
\* the escaping) and "M".
VOICE == <<118>>
PERSONA_PROMPT == <<80, 34>>
AGENT_NAME == <<77>>

K_type == <<116, 121, 112, 101>>
K_audio == <<97, 117, 100, 105, 111>>
K_session == <<115, 101, 115, 115, 105, 111, 110>>
K_voice == <<118, 111, 105, 99, 101>>
K_instructions == <<105, 110, 115, 116, 114, 117, 99, 116, 105, 111, 110, 115>>
T_append ==
  <<105, 110, 112, 117, 116, 95, 97, 117, 100, 105, 111, 95, 98, 117, 102, 102, 101,
    114, 46, 97, 112, 112, 101, 110, 100>>
T_update == <<115, 101, 115, 115, 105, 111, 110, 46, 117, 112, 100, 97, 116, 101>>
T_nameSep == <<10, 10, 78, 97, 109, 101, 58, 32>>

\* JSON.stringify(sessionUpdate)
sessionUpdate ==
  JsonObject(<<
    <<K_type, JsonString(T_update)>>,
    <<K_session, JsonObject(<<
        <<K_voice, JsonString(VOICE)>>,
        <<K_instructions, JsonString(PERSONA_PROMPT \o T_nameSep \o AGENT_NAME)>> >>)>> >>)

\* JSON.stringify({ type: "input_audio_buffer.append", audio: b64 })
AppendEnvelope(b64) ==
  JsonObject(<< <<K_type, JsonString(T_append)>>, <<K_audio, JsonString(b64)>> >>)

\* Messages the relay client can send: text frames carry well-formed UTF-8 (ws
\* rejects the others before the message event), binary frames any bytes.
InMsgs ==
  { [binary |-> FALSE, data |-> <<123, 195, 169, 125>>],
    [binary |-> TRUE, data |-> <<123, 195, 169, 125>>],
    [binary |-> TRUE, data |-> <<1, 2, 3, 255>>],
    [binary |-> TRUE, data |-> <<255, 254>>] }

\* Messages the speech service can send.
OutMsgs ==
  { [binary |-> FALSE, data |-> <<226, 130, 172>>],
    [binary |-> TRUE, data |-> <<226, 130, 172>>],
    [binary |-> TRUE, data |-> <<255, 0>>] }

\* ------------------------------------------------------------------ state

VARIABLES
  sess,       \* the sessions wsAgent created, in creation order
  delegated,  \* req.url of the upgrade handed to wsAgent, one per session
  destroyed,  \* req.url of the upgrades whose socket was destroyed
  rf          \* the running call of recallFetch and the calls that ended

vars == <<sess, delegated, destroyed, rf>>

\* wsAgent with the keepalive of aiWs set at construction, like kaClient.
wsAgentEagerKaAi ==
  [ clientState |-> "OPEN",
    aiState |-> "CONNECTING",
    aiErrPending |-> FALSE,
    kaClient |-> "active",
    kaAi |-> "active",
    aiConnects |-> 1,
    kaAiStarts |-> 1,
    inLog |-> << >>,
    outLog |-> << >>,
    aiSent |-> << >>,
    clientSent |-> << >>,
    closeCalls |-> [client |-> 0, ai |-> 0],
    errLog |-> {},
    fwdErrors |-> [toAi |-> 0, toClient |-> 0],
    ticks |-> [client |-> 0, ai |-> 0],
    pings |-> [client |-> 0, ai |-> 0] ]

\* The closure state of one wsAgent(clientWs) call, right after it returns:
\* clientWs is an accepted (open) socket, aiWs is connecting, kaClient runs and
\* kaAi is null. inLog, outLog, aiSent, clientSent, closeCalls, errLog, fwdErrors,
\* ticks and pings record what the handlers received and did, aiConnects the
\* sockets opened to the speech service and kaAiStarts the kaAi intervals set.
wsAgent ==
  [ clientState |-> "OPEN",
    aiState |-> "CONNECTING",
    aiErrPending |-> FALSE,
    kaClient |-> "active",
    kaAi |-> "null",
    aiConnects |-> 1,
    kaAiStarts |-> 0,
    inLog |-> << >>,
    outLog |-> << >>,
    aiSent |-> << >>,
    clientSent |-> << >>,
    closeCalls |-> [client |-> 0, ai |-> 0],
    errLog |-> {},
    fwdErrors |-> [toAi |-> 0, toClient |-> 0],
    ticks |-> [client |-> 0, ai |-> 0],
    pings |-> [client |-> 0, ai |-> 0] ]

\* ---------------------------------------------------------- ws library calls

\* ws.send() and ws.ping() throw while the socket is CONNECTING, write the frame
\* while it is OPEN, and drop it without throwing once it is CLOSING or CLOSED.
WsSendThrows(state) == state = "CONNECTING"
WsSendDelivers(state) == state = "OPEN"

\* close() that leaves a connecting socket connecting.
WsCloseNoAbort(state) == IF state = "OPEN" THEN "CLOSING" ELSE state

\* ws.close(): a no-op on a closing or closed socket, aborts the handshake of a
\* connecting one, starts the closing handshake of an open one.
WsClose(state) == IF state \in {"CONNECTING", "OPEN"} THEN "CLOSING" ELSE state

\* The frame ws writes for send(string): a text frame of the string's UTF-8.
TextFrame(str, src) == [binary |-> FALSE, data |-> Utf8Encode(str), src |-> src]
\* The frame ws writes for send(buffer, { binary: true }).
BinaryFrame(buf, src) == [binary |-> TRUE, data |-> buf, src |-> src]

\* ------------------------------------------------------------ the acceptor

\* String.prototype.startsWith
StartsWith(str, prefix) ==
  Len(str) >= Len(prefix) /\ SubSeq(str, 1, Len(prefix)) = prefix

\* req.url?.startsWith("/ws/agent")
Accepts(url) == url # NoUrl /\ StartsWith(url, Route)

\* server.on("upgrade"): hand the socket to wsAgent, or destroy it.
Upgrade(url, maxSessions) ==
  IF Accepts(url)
  THEN /\ Len(sess) < maxSessions
       /\ sess' = Append(sess, wsAgent)
       /\ delegated' = Append(delegated, url)
       /\ UNCHANGED <<destroyed, rf>>
  ELSE /\ destroyed' = destroyed \cup {url}
       /\ UNCHANGED <<sess, delegated, rf>>

\* ------------------------------------------------------------- the handlers
\* Each handler maps the session's state S to its state after the handler ran.

\* ClientOnClose without the close of the AI leg.
ClientOnCloseKeepAi(S) ==
  [S EXCEPT !.kaClient = "cleared",
            !.kaAi = IF @ = "null" THEN @ ELSE "cleared"]

\* clientWs.on("close"): close the AI leg, clear both timers.
\* ClientOnClose without clearInterval(kaClient).
ClientOnCloseLeaksTimer(S) ==
  [S EXCEPT !.aiState = WsClose(@),
            !.aiErrPending = @ \/ (S.aiState = "CONNECTING"),
            !.closeCalls.ai = @ + 1,
            !.kaAi = IF @ = "null" THEN @ ELSE "cleared"]

ClientOnClose(S) ==
  [S EXCEPT !.aiState = WsClose(@),
            !.aiErrPending = @ \/ (S.aiState = "CONNECTING"),
            !.closeCalls.ai = @ + 1,
            !.kaClient = "cleared",
            !.kaAi = IF @ = "null" THEN @ ELSE "cleared"]

\* ClientOnError that also closes the AI leg, as the Close handler does.
ClientOnErrorClosesAi(S) ==
  [S EXCEPT !.errLog = @ \cup {"client"},
            !.aiState = WsClose(@),
            !.aiErrPending = @ \/ (S.aiState = "CONNECTING"),
            !.closeCalls.ai = @ + 1]

\* clientWs.on("error") and aiWs.on("error"): log the error.
ClientOnError(S) == [S EXCEPT !.errLog = @ \cup {"client"}]
AiOnError(S) == [S EXCEPT !.errLog = @ \cup {"ai"}]

\* AiOnOpen without the send of the session configuration.
AiOnOpenNoConfig(S) == [S EXCEPT !.kaAi = "active", !.kaAiStarts = @ + 1]

\* aiWs.on("open"): start kaAi, send the session configuration.
AiOnOpen(S) ==
  [S EXCEPT !.kaAi = "active",
            !.kaAiStarts = @ + 1,
            !.aiSent = IF WsSendDelivers(S.aiState)
                       THEN Append(@, TextFrame(sessionUpdate, 0))
                       ELSE @]

\* AiOnClose that opens a new socket to the speech service instead of ending.
AiOnCloseReconnects(S) ==
  [S EXCEPT !.aiState = "CONNECTING",
            !.aiConnects = @ + 1,
            !.kaAi = IF @ = "null" THEN @ ELSE "cleared"]

\* AiOnClose without the close of the client leg.
AiOnCloseKeepClient(S) == [S EXCEPT !.kaAi = IF @ = "null" THEN @ ELSE "cleared"]

\* aiWs.on("close"): close the client leg, clear kaAi if it was set.
AiOnClose(S) ==
  [S EXCEPT !.clientState = WsClose(@),
            !.closeCalls.client = @ + 1,
            !.kaAi = IF @ = "null" THEN @ ELSE "cleared"]

\* ClientToAi with the audio rendered by toString() instead of toString("base64").
ClientToAiUtf8(m) ==
  IF ~m.binary THEN Utf8Decode(m.data) ELSE AppendEnvelope(Utf8Decode(m.data))

\* What the client message handler hands to aiWs.send for message m.
ClientToAi(m) ==
  IF ~m.binary THEN Utf8Decode(m.data) ELSE AppendEnvelope(Base64(m.data))

\* ClientOnMessage that sends the translated message twice.
ClientOnMessageSendsTwice(S, m, i) ==
  IF WsSendThrows(S.aiState)
  THEN [S EXCEPT !.fwdErrors.toAi = @ + 1]
  ELSE IF WsSendDelivers(S.aiState)
  THEN [S EXCEPT !.aiSent = Append(Append(@, TextFrame(ClientToAi(m), i)),
                                   TextFrame(ClientToAi(m), i))]
  ELSE S

\* ClientOnMessage whose send writes the frame on any socket that is not
\* connecting, closing and closed ones included.
ClientOnMessageNoStateCheck(S, m, i) ==
  IF WsSendThrows(S.aiState)
  THEN [S EXCEPT !.fwdErrors.toAi = @ + 1]
  ELSE [S EXCEPT !.aiSent = Append(@, TextFrame(ClientToAi(m), i))]

\* clientWs.on("message"), m being message number i of the client: send its
\* translation on the AI leg; a throw of send is caught and logged.
ClientOnMessage(S, m, i) ==
  IF WsSendThrows(S.aiState)
  THEN [S EXCEPT !.fwdErrors.toAi = @ + 1]
  ELSE IF WsSendDelivers(S.aiState)
  THEN [S EXCEPT !.aiSent = Append(@, TextFrame(ClientToAi(m), i))]
  ELSE S

\* AiToClient without the binary branch: every message is sent as text.
AiToClientAllText(m, i) == TextFrame(Utf8Decode(m.data), i)

\* The frame the AI message handler hands to clientWs.send for message m.
AiToClient(m, i) ==
  IF ~m.binary THEN TextFrame(Utf8Decode(m.data), i) ELSE BinaryFrame(m.data, i)

\* aiWs.on("message"), m being message number i of the AI leg.
AiOnMessage(S, m, i) ==
  IF WsSendThrows(S.clientState)
  THEN [S EXCEPT !.fwdErrors.toClient = @ + 1]
  ELSE IF WsSendDelivers(S.clientState)
  THEN [S EXCEPT !.clientSent = Append(@, AiToClient(m, i))]
  ELSE S

\* The kaClient and kaAi interval callbacks: ping, swallowing a throw.
\* KaClientFire without the try/catch swallowing: a ping that cannot be sent
\* ends the timer and closes the other leg.
KaClientFireEscalates(S) ==
  IF WsSendDelivers(S.clientState)
  THEN [S EXCEPT !.ticks.client = @ + 1, !.pings.client = @ + 1]
  ELSE [S EXCEPT !.ticks.client = @ + 1,
                 !.kaClient = "cleared",
                 !.aiState = WsClose(@),
                 !.closeCalls.ai = @ + 1]

KaClientFire(S) ==
  [S EXCEPT !.ticks.client = @ + 1,
            !.pings.client = IF WsSendDelivers(S.clientState) THEN @ + 1 ELSE @]
KaAiFire(S) ==
  [S EXCEPT !.ticks.ai = @ + 1,
            !.pings.ai = IF WsSendDelivers(S.aiState) THEN @ + 1 ELSE @]

\* --------------------------------------------------------------- the events
\* One action per event the two sockets and the two timers can deliver to
\* session s; the socket's readyState changes before its handler runs.

\* Step with kaAi held in one variable of the module instead of one per call
\* of wsAgent: clearing it in one session clears it in all.
StepSharedTimers(s, S) ==
  /\ sess' = [t \in DOMAIN sess |->
               IF t = s THEN S
               ELSE IF S.kaAi = "cleared" /\ sess[s].kaAi = "active"
                       /\ sess[t].kaAi = "active"
                    THEN [sess[t] EXCEPT !.kaAi = "cleared"]
                    ELSE sess[t]]
  /\ UNCHANGED <<delegated, destroyed, rf>>

Step(s, S) == /\ sess' = [sess EXCEPT ![s] = S]
              /\ UNCHANGED <<delegated, destroyed, rf>>

\* The upstream handshake completes.
AiOpen(s) ==
  /\ sess[s].aiState = "CONNECTING"
  /\ Step(s, AiOnOpen([sess[s] EXCEPT !.aiState = "OPEN"]))

\* A message of the relay client arrives (also while clientWs is closing).
ClientMessage(s, m, maxMsgs) ==
  /\ sess[s].clientState \in {"OPEN", "CLOSING"}
  /\ Len(sess[s].inLog) + Len(sess[s].outLog) < maxMsgs
  /\ LET S == [sess[s] EXCEPT
                 !.inLog = Append(@, [binary |-> m.binary, data |-> m.data,
                                      at |-> sess[s].aiState])]
     IN Step(s, ClientOnMessage(S, m, Len(S.inLog)))

\* A message of the speech service arrives (also while aiWs is closing).
AiMessage(s, m, maxMsgs) ==
  /\ sess[s].aiState \in {"OPEN", "CLOSING"}
  /\ ~sess[s].aiErrPending
  /\ Len(sess[s].inLog) + Len(sess[s].outLog) < maxMsgs
  /\ LET S == [sess[s] EXCEPT
                 !.outLog = Append(@, [binary |-> m.binary, data |-> m.data,
                                       at |-> sess[s].clientState])]
     IN Step(s, AiOnMessage(S, m, Len(S.outLog)))

\* clientWs fails: ws emits "error" and closes the socket, "close" follows.
ClientError(s) ==
  /\ sess[s].clientState = "OPEN"
  /\ Step(s, ClientOnError([sess[s] EXCEPT !.clientState = "CLOSING"]))

\* aiWs fails, connecting or open: ws emits "error", "close" follows.
AiError(s) ==
  /\ sess[s].aiState \in {"CONNECTING", "OPEN"}
  /\ Step(s, AiOnError([sess[s] EXCEPT !.aiState = "CLOSING"]))

\* The "error" ws emits for a handshake that aiWs.close() aborted.
AiAbortError(s) ==
  /\ sess[s].aiErrPending
  /\ Step(s, AiOnError([sess[s] EXCEPT !.aiErrPending = FALSE]))

\* clientWs is closed, by the peer or at the end of a close it was asked for.
ClientClose(s) ==
  /\ sess[s].clientState \in {"OPEN", "CLOSING"}
  /\ Step(s, ClientOnClose([sess[s] EXCEPT !.clientState = "CLOSED"]))

\* aiWs is closed, by the peer or at the end of a close it was asked for.
AiClose(s) ==
  /\ sess[s].aiState \in {"OPEN", "CLOSING"}
  /\ ~sess[s].aiErrPending
  /\ Step(s, AiOnClose([sess[s] EXCEPT !.aiState = "CLOSED"]))

\* The kaClient interval elapses.
KaClientTick(s, maxTicks) ==
  /\ sess[s].kaClient = "active"
  /\ sess[s].ticks.client + sess[s].ticks.ai < maxTicks
  /\ Step(s, KaClientFire(sess[s]))

\* The kaAi interval elapses.
KaAiTick(s, maxTicks) ==
  /\ sess[s].kaAi = "active"
  /\ sess[s].ticks.client + sess[s].ticks.ai < maxTicks
  /\ Step(s, KaAiFire(sess[s]))

\* ------------------------------------------------------------ recallFetch

RECALL_API_KEY == "key"

\* The headers recallFetch tries, in order.
tries ==
  << [Authorization |-> <<"Bearer", RECALL_API_KEY>>],
     [Authorization |-> <<"Token", RECALL_API_KEY>>] >>

\* The calls of recallFetch the routes make: method, path and body.
RecallCalls ==
  { [method |-> "POST", path |-> "/meeting-bots", body |-> "payload"],
    [method |-> "GET", path |-> "/meeting-bots", body |-> "null"],
    [method |-> "POST", path |-> "/meeting-bots/id/end", body |-> "{}"],
    [method |-> "DELETE", path |-> "/meeting-bots/id", body |-> "null"] }

\* The statuses the API answers with.
Statuses == {200, 401, 404, 500}

\* No call is running and none has ended.
RecallIdle ==
  [pc |-> "idle", call |-> "none", h |-> 0, last |-> "undefined",
   requests |-> << >>, responses |-> << >>, ended |-> << >>]

\* The request fetch sends for the h-th entry of tries; a body that is null
\* is sent as undefined, any other as its JSON text.
RecallRequest(call, h) ==
  [method |-> call.method, url |-> <<"RECALL_API_BASE", call.path>>,
   Authorization |-> tries[h].Authorization,
   body |-> IF call.body = "null" THEN "undefined" ELSE call.body]

\* The loop reaches fetch with the h-th entry of tries.
RecallTry(R, h) ==
  [R EXCEPT !.pc = "awaiting", !.h = h,
            !.requests = Append(@, RecallRequest(R.call, h))]

\* return last: the call ends and is recorded with what it returned.
RecallReturn(R) ==
  [RecallIdle EXCEPT
     !.ended = Append(R.ended,
                      [call |-> R.call, requests |-> R.requests,
                       responses |-> R.responses, outcome |-> "returned",
                       result |-> R.last])]

\* fetch rejects: the await throws out of recallFetch.
RecallThrow(R) ==
  [RecallIdle EXCEPT
     !.ended = Append(R.ended,
                      [call |-> R.call, requests |-> R.requests,
                       responses |-> R.responses, outcome |-> "threw",
                       result |-> "undefined"])]

\* The loop body after the await, without the break: every entry of tries is
\* used whatever the status.
RecallOnResponseNoBreak(R, res) ==
  LET R1 == [R EXCEPT !.responses = Append(@, res), !.last = res]
  IN IF R.h < Len(tries) THEN RecallTry(R1, R.h + 1) ELSE RecallReturn(R1)

\* The loop body after the await resolved with res, to the next await or to
\* the return.
RecallOnResponse(R, res) ==
  LET R1 == [R EXCEPT !.responses = Append(@, res), !.last = res]
  IN IF res.status # 401
     THEN RecallReturn(R1)
     ELSE IF R.h < Len(tries) THEN RecallTry(R1, R.h + 1) ELSE RecallReturn(R1)

\* A route calls recallFetch: the loop starts with the first entry of tries.
RecallFetch(call, maxCalls) ==
  /\ rf.pc = "idle"
  /\ Len(rf.ended) < maxCalls
  /\ rf' = RecallTry([rf EXCEPT !.call = call], 1)
  /\ UNCHANGED <<sess, delegated, destroyed>>

\* The API answers the request in flight.
RecallResponse(status) ==
  /\ rf.pc = "awaiting"
  /\ rf' = RecallOnResponse(rf, [status |-> status, to |-> rf.h])
  /\ UNCHANGED <<sess, delegated, destroyed>>

\* The request in flight fails without an answer.
RecallReject ==
  /\ rf.pc = "awaiting"
  /\ rf' = RecallThrow(rf)
  /\ UNCHANGED <<sess, delegated, destroyed>>

\* ------------------------------------------------------- the specifications

\* One session: the state after the acceptor handed one upgrade to wsAgent.
InitSessions == <<wsAgent>>

Init ==
  /\ sess = InitSessions
  /\ delegated = <<Route>>
  /\ destroyed = {}
  /\ rf = RecallIdle

Next ==
  \/ \E s \in DOMAIN sess : AiOpen(s)
  \/ \E s \in DOMAIN sess, m \in InMsgs : ClientMessage(s, m, MaxMsgs)
  \/ \E s \in DOMAIN sess, m \in OutMsgs : AiMessage(s, m, MaxMsgs)
  \/ \E s \in DOMAIN sess : ClientError(s)
  \/ \E s \in DOMAIN sess : AiError(s)
  \/ \E s \in DOMAIN sess : AiAbortError(s)
  \/ \E s \in DOMAIN sess : ClientClose(s)
  \/ \E s \in DOMAIN sess : AiClose(s)
  \/ \E s \in DOMAIN sess : KaClientTick(s, MaxTicks)
  \/ \E s \in DOMAIN sess : KaAiTick(s, MaxTicks)

Spec == Init /\ [][Next]_vars

\* Two concurrent sessions: two upgrades were handed to wsAgent.  The events
\* of both share one budget of messages and timer ticks, and each direction
\* carries one payload.
PairSessions == <<wsAgent, wsAgent>>

PairInMsgs == {[binary |-> TRUE, data |-> <<1, 2, 3, 255>>]}

PairOutMsgs == {[binary |-> FALSE, data |-> <<226, 130, 172>>]}

RECURSIVE PairEventCount(_)
PairEventCount(n) ==
  IF n = 0 THEN 0
  ELSE Len(sess[n].inLog) + Len(sess[n].outLog)
       + sess[n].ticks.client + sess[n].ticks.ai + PairEventCount(n - 1)

InitPair ==
  /\ sess = PairSessions
  /\ delegated = <<Route, Route>>
  /\ destroyed = {}
  /\ rf = RecallIdle

NextPair ==
  \/ \E s \in DOMAIN sess : AiOpen(s)
  \/ \E s \in DOMAIN sess, m \in PairInMsgs :
       PairEventCount(Len(sess)) < PairEvents /\ ClientMessage(s, m, PairEvents)
  \/ \E s \in DOMAIN sess, m \in PairOutMsgs :
       PairEventCount(Len(sess)) < PairEvents /\ AiMessage(s, m, PairEvents)
  \/ \E s \in DOMAIN sess : ClientError(s)
  \/ \E s \in DOMAIN sess : AiError(s)
  \/ \E s \in DOMAIN sess : AiAbortError(s)
  \/ \E s \in DOMAIN sess : ClientClose(s)
  \/ \E s \in DOMAIN sess : AiClose(s)
  \/ \E s \in DOMAIN sess :
       PairEventCount(Len(sess)) < PairEvents /\ KaClientTick(s, PairEvents)
  \/ \E s \in DOMAIN sess :
       PairEventCount(Len(sess)) < PairEvents /\ KaAiTick(s, PairEvents)

SpecPair == InitPair /\ [][NextPair]_vars

\* The routes that call the Recall API, with no session.
InitRecall ==
  /\ sess = << >>
  /\ delegated = << >>
  /\ destroyed = {}
  /\ rf = RecallIdle

NextRecall ==
  \/ \E call \in RecallCalls : RecallFetch(call, MaxCalls)
  \/ \E status \in Statuses : RecallResponse(status)
  \/ RecallReject

SpecRecall == InitRecall /\ [][NextRecall]_vars

\* The acceptor alone: the server is listening and no upgrade has arrived yet.
InitAcceptor ==
  /\ sess = << >>
  /\ delegated = << >>
  /\ destroyed = {}
  /\ rf = RecallIdle

NextAcceptor == \E url \in Urls : Upgrade(url, MaxSessions)

SpecAcceptor == InitAcceptor /\ [][NextAcceptor]_vars

\* A socket that is CLOSING delivers its "close": ws ends the closing handshake
\* by a timeout at the latest, and the "error" of an aborted handshake and the
\* "close" after it are emitted from the next tick of the event loop.
ClientCloseDue(s) == s \in DOMAIN sess /\ sess[s].clientState = "CLOSING" /\ ClientClose(s)
AiCloseDue(s) == s \in DOMAIN sess /\ sess[s].aiState = "CLOSING" /\ AiClose(s)
AiAbortErrorDue(s) == s \in DOMAIN sess /\ AiAbortError(s)

\* The events of the one session, with the message budget of the liveness runs.
NextLive ==
  \/ \E s \in DOMAIN sess : AiOpen(s)
  \/ \E s \in DOMAIN sess, m \in InMsgs : ClientMessage(s, m, LiveMsgs)
  \/ \E s \in DOMAIN sess, m \in OutMsgs : AiMessage(s, m, LiveMsgs)
  \/ \E s \in DOMAIN sess : ClientError(s)
  \/ \E s \in DOMAIN sess : AiError(s)
  \/ \E s \in DOMAIN sess : AiAbortError(s)
  \/ \E s \in DOMAIN sess : ClientClose(s)
  \/ \E s \in DOMAIN sess : AiClose(s)
  \/ \E s \in DOMAIN sess : KaClientTick(s, MaxTicks)
  \/ \E s \in DOMAIN sess : KaAiTick(s, MaxTicks)

FairSpec ==
  /\ Init /\ [][NextLive]_vars
  /\ \A s \in DOMAIN InitSessions :
       /\ WF_vars(ClientCloseDue(s))
       /\ WF_vars(AiCloseDue(s))
       /\ WF_vars(AiAbortErrorDue(s))

\* ---------------------------------------------------------------- claims

Sessions == 1..MaxSessions

\* The indices of the frames of a sequence of frames that come from source src.
FramesOf(frames, src) == {k \in DOMAIN frames : frames[k].src = src}

\* The open handler of the AI leg has run.
Opened(S) == S.kaAi # "null"

\* The text of the session configuration for the configured voice, prompt and
\* name: {"type":"session.update","session":{"voice":"v","instructions":"P\"\n\nName: M"}}
ConfigText ==
  <<123, 34, 116, 121, 112, 101, 34, 58, 34, 115, 101, 115, 115, 105, 111, 110, 46,
    117, 112, 100, 97, 116, 101, 34, 44, 34, 115, 101, 115, 115, 105, 111, 110, 34, 58,
    123, 34, 118, 111, 105, 99, 101, 34, 58, 34, 118, 34, 44, 34, 105, 110, 115, 116,
    114, 117, 99, 116, 105, 111, 110, 115, 34, 58, 34, 80, 92, 34, 92, 110, 92, 110, 78,
    97, 109, 101, 58, 32, 77, 34, 125, 125>>

\* C1: in every session the frames sent on the AI leg are either none, or start
\* with the session configuration (a text frame carrying session.update), which
\* occurs exactly once among them; once the AI leg has opened it has been sent.
C1_ConfigFirstOnce ==
  \A s \in DOMAIN sess :
    LET S == sess[s]
    IN /\ Cardinality(FramesOf(S.aiSent, 0)) <= 1
       /\ S.aiSent # << >> =>
            /\ S.aiSent[1].src = 0
            /\ ~S.aiSent[1].binary
            /\ S.aiSent[1].data = ConfigText
       /\ Opened(S) => Cardinality(FramesOf(S.aiSent, 0)) = 1
       /\ \A k \in DOMAIN S.aiSent : k > 1 => S.aiSent[k].src # 0

\* C1 witness: two client messages arrived before the AI leg opened, the leg
\* then opened and the configuration went out.
C1_Witness ==
  \E s \in DOMAIN sess :
    /\ Len(sess[s].inLog) = 2
    /\ \A i \in DOMAIN sess[s].inLog : sess[s].inLog[i].at = "CONNECTING"
    /\ Len(sess[s].aiSent) = 1
    /\ sess[s].aiSent[1].src = 0

\* C2 (as claimed): once the AI leg has opened, every client message that
\* arrived while it was connecting has been sent on it, after the
\* configuration and in arrival order.
C2_QueuedDelivered ==
  \A s \in DOMAIN sess :
    LET S == sess[s]
    IN Opened(S) =>
         \A i \in DOMAIN S.inLog :
           S.inLog[i].at = "CONNECTING" =>
             /\ \E k \in DOMAIN S.aiSent : k > 1 /\ S.aiSent[k].src = i
             /\ \A j \in DOMAIN S.inLog, k, l \in DOMAIN S.aiSent :
                  (i < j /\ S.aiSent[k].src = i /\ S.aiSent[l].src = j) => k < l

\* C3: in every session, once the Close handler of the client leg has run the
\* AI leg is eventually closed, and once the Close handler of the AI leg has
\* run the client leg is eventually closed.
C3_CloseCorrelation ==
  \A s \in DOMAIN InitSessions :
    /\ (s \in DOMAIN sess /\ sess[s].clientState = "CLOSED")
         ~> (s \in DOMAIN sess /\ sess[s].aiState = "CLOSED")
    /\ (s \in DOMAIN sess /\ sess[s].aiState = "CLOSED")
         ~> (s \in DOMAIN sess /\ sess[s].clientState = "CLOSED")

\* C3 witness: an active session (the configuration was sent) whose client leg
\* closed and whose AI leg, asked to close by the client's Close handler, closed.
C3_Witness ==
  \E s \in DOMAIN sess :
    /\ sess[s].clientState = "CLOSED"
    /\ sess[s].aiState = "CLOSED"
    /\ sess[s].closeCalls.ai = 1
    /\ sess[s].aiSent # << >>

C5_BothTimersCancelled ==
  \A s \in DOMAIN sess :
    (sess[s].clientState = "CLOSED" \/ sess[s].aiState = "CLOSED") =>
      (sess[s].kaClient # "active" /\ sess[s].kaAi # "active")

\* C6 (as claimed): every upgrade handed to wsAgent asked for exactly the bridge
\* route, and the socket of every other upgrade was destroyed.
C6_OnlyRouteDelegated ==
  /\ \A i \in DOMAIN delegated : delegated[i] = Route
  /\ \A url \in destroyed : url # Route

\* The value of a base64 digit, and the bytes a padded base64 text stands for.
B64Value(c) ==
  IF c >= 65 /\ c <= 90 THEN c - 65
  ELSE IF c >= 97 /\ c <= 122 THEN c - 71
  ELSE IF c >= 48 /\ c <= 57 THEN c + 4
  ELSE IF c = 43 THEN 62
  ELSE IF c = 47 THEN 63
  ELSE -1

RECURSIVE B64Decode(_)
B64Decode(chars) ==
  IF Len(chars) < 4 THEN << >>
  ELSE LET a == B64Value(chars[1])
           b == B64Value(chars[2])
           c == B64Value(chars[3])
           d == B64Value(chars[4])
           rest == B64Decode(SubSeq(chars, 5, Len(chars)))
       IN IF chars[3] = 61 THEN <<a * 4 + (b \div 16)>>
          ELSE IF chars[4] = 61 THEN <<a * 4 + (b \div 16), (b % 16) * 16 + (c \div 4)>>
          ELSE <<a * 4 + (b \div 16), (b % 16) * 16 + (c \div 4), (c % 4) * 64 + d>> \o rest

IsB64Text(chars) ==
  /\ Len(chars) % 4 = 0
  /\ \A k \in DOMAIN chars :
       \/ B64Value(chars[k]) >= 0
       \/ chars[k] = 61 /\ k >= Len(chars) - 1 /\ (k = Len(chars) - 1 => chars[Len(chars)] = 61)

\* {"type":"input_audio_buffer.append","audio":"   and   "}
EnvelopeHead ==
  <<123, 34, 116, 121, 112, 101, 34, 58, 34, 105, 110, 112, 117, 116, 95, 97, 117, 100,
    105, 111, 95, 98, 117, 102, 102, 101, 114, 46, 97, 112, 112, 101, 110, 100, 34, 44,
    34, 97, 117, 100, 105, 111, 34, 58, 34>>
EnvelopeTail == <<34, 125>>

\* The frame is a text frame carrying the append envelope of the bytes P.
IsEnvelopeOf(frame, P) ==
  LET d == frame.data
      n == Len(d)
      h == Len(EnvelopeHead)
  IN /\ ~frame.binary
     /\ n >= h + 2
     /\ SubSeq(d, 1, h) = EnvelopeHead
     /\ SubSeq(d, n - 1, n) = EnvelopeTail
     /\ IsB64Text(SubSeq(d, h + 1, n - 2))
     /\ B64Decode(SubSeq(d, h + 1, n - 2)) = P

\* The client messages of S that arrived while the AI leg was in state st.
ArrivedAt(S, st) == {i \in DOMAIN S.inLog : S.inLog[i].at = st}

\* C7: for every binary client message that arrived while the AI leg was open,
\* the AI leg was sent exactly one frame, a text frame carrying the append
\* envelope of the base64 of its bytes; and the AI leg was sent nothing but the
\* configuration and one frame per client message that arrived while it was open.
C7_BinaryEnvelope ==
  \A s \in DOMAIN sess :
    LET S == sess[s]
    IN /\ \A i \in ArrivedAt(S, "OPEN") :
            S.inLog[i].binary =>
              /\ Cardinality(FramesOf(S.aiSent, i)) = 1
              /\ \A k \in FramesOf(S.aiSent, i) : IsEnvelopeOf(S.aiSent[k], S.inLog[i].data)
       /\ Len(S.aiSent) = (IF Opened(S) THEN 1 ELSE 0) + Cardinality(ArrivedAt(S, "OPEN"))

\* C7 witness: the bytes 01 02 03 FF arrived on an open session and the AI leg
\* was sent the envelope whose audio is "AQID/w==".
C7_Witness ==
  \E s \in DOMAIN sess : \E i \in ArrivedAt(sess[s], "OPEN") :
    /\ sess[s].inLog[i].binary
    /\ sess[s].inLog[i].data = <<1, 2, 3, 255>>
    /\ \E k \in DOMAIN sess[s].aiSent :
         /\ sess[s].aiSent[k].src = i
         /\ sess[s].aiSent[k].data
              = EnvelopeHead \o <<65, 81, 73, 68, 47, 119, 61, 61>> \o EnvelopeTail

\* C8 (as claimed): every text client message that arrived while the AI leg was
\* connecting or open has, once that leg has opened, been sent on it as one
\* text frame with the same bytes, and the frames sent on the AI leg are in the
\* order of arrival of their messages.
C8_TextForwardedInOrder ==
  \A s \in DOMAIN sess :
    LET S == sess[s]
    IN Opened(S) =>
         /\ \A i \in ArrivedAt(S, "CONNECTING") \cup ArrivedAt(S, "OPEN") :
              ~S.inLog[i].binary =>
                /\ Cardinality(FramesOf(S.aiSent, i)) = 1
                /\ \A k \in FramesOf(S.aiSent, i) :
                     ~S.aiSent[k].binary /\ S.aiSent[k].data = S.inLog[i].data
         /\ \A k, l \in DOMAIN S.aiSent : k < l => S.aiSent[k].src < S.aiSent[l].src

\* C9: for every message of the AI leg that arrived while the client leg was
\* open, the client leg was sent exactly one frame, with the same bytes and the
\* same framing; the client leg was sent nothing else, and its frames are in the
\* order of arrival of their messages.
C9_OutboundPassThrough ==
  \A s \in DOMAIN sess :
    LET S == sess[s]
        open == {i \in DOMAIN S.outLog : S.outLog[i].at = "OPEN"}
    IN /\ \A i \in open :
            /\ Cardinality(FramesOf(S.clientSent, i)) = 1
            /\ \A k \in FramesOf(S.clientSent, i) :
                 /\ S.clientSent[k].binary = S.outLog[i].binary
                 /\ S.clientSent[k].data = S.outLog[i].data
       /\ Len(S.clientSent) = Cardinality(open)
       /\ \A k, l \in DOMAIN S.clientSent :
            k < l => S.clientSent[k].src < S.clientSent[l].src

\* C9 witness: a binary and then a text message of the AI leg were passed on.
C9_Witness ==
  \E s \in DOMAIN sess :
    /\ Len(sess[s].clientSent) = 2
    /\ sess[s].clientSent[1].binary
    /\ sess[s].clientSent[1].data = <<255, 0>>
    /\ ~sess[s].clientSent[2].binary
    /\ sess[s].clientSent[2].data = <<226, 130, 172>>

\* C10 (as claimed): once the Error handler of a leg has run, the other leg has
\* been asked to close and neither liveness timer is active.
C10_ErrorIsTeardown ==
  \A s \in DOMAIN sess :
    LET S == sess[s]
    IN /\ "client" \in S.errLog =>
            S.closeCalls.ai >= 1 /\ S.kaClient # "active" /\ S.kaAi # "active"
       /\ "ai" \in S.errLog =>
            S.closeCalls.client >= 1 /\ S.kaClient # "active" /\ S.kaAi # "active"

\* Both legs of session s are closed and neither timer is active.
TornDown(s) ==
  /\ s \in DOMAIN sess
  /\ sess[s].clientState = "CLOSED"
  /\ sess[s].aiState = "CLOSED"
  /\ sess[s].kaClient # "active"
  /\ sess[s].kaAi # "active"

\* C10 (amended): an Error handler only logs: the step that logs an error asks
\* no leg to close and cancels no timer; the teardown is run by the Close events
\* that follow, so that after an Error on either leg both legs are eventually
\* closed and both timers cancelled.
C10_ErrorThenCloseTearsDown ==
  /\ [][\A s \in DOMAIN InitSessions :
          sess'[s].errLog # sess[s].errLog =>
            /\ sess'[s].closeCalls = sess[s].closeCalls
            /\ sess'[s].kaClient = sess[s].kaClient
            /\ sess'[s].kaAi = sess[s].kaAi]_vars
  /\ \A s \in DOMAIN InitSessions :
       (s \in DOMAIN sess /\ sess[s].errLog # {}) ~> TornDown(s)

\* C10 witness: an active session whose AI leg failed, torn down by the Close
\* events that followed the error.
C10_Witness ==
  \E s \in DOMAIN sess :
    /\ sess[s].errLog = {"ai"}
    /\ TornDown(s)
    /\ sess[s].kaAi = "cleared"
    /\ sess[s].closeCalls = [client |-> 1, ai |-> 1]

\* C11 (as claimed): once a forward to a leg has failed and been logged, that
\* leg's close path has been started: the leg was asked to close or is closing.
C11_ForwardFailureCloses ==
  \A s \in DOMAIN sess :
    LET S == sess[s]
    IN /\ S.fwdErrors.toAi > 0 =>
            S.closeCalls.ai >= 1 \/ S.aiState \in {"CLOSING", "CLOSED"}
       /\ S.fwdErrors.toClient > 0 =>
            S.closeCalls.client >= 1 \/ S.clientState \in {"CLOSING", "CLOSED"}

\* The AI leg of session s failed (its error was logged) without ever opening.
FailedBeforeOpen(s) ==
  /\ s \in DOMAIN sess
  /\ ~Opened(sess[s])
  /\ "ai" \in sess[s].errLog
  /\ sess[s].aiState \in {"CLOSING", "CLOSED"}

\* C12: in a session whose AI leg failed before it opened, nothing is ever sent
\* on the AI leg (neither the configuration nor a client message), and the
\* client leg is eventually closed.
C12_ConnectFailureEndsSession ==
  /\ [](\A s \in DOMAIN InitSessions : FailedBeforeOpen(s) => sess[s].aiSent = << >>)
  /\ \A s \in DOMAIN InitSessions :
       FailedBeforeOpen(s) ~> (s \in DOMAIN sess /\ sess[s].clientState = "CLOSED")

\* C12 witness: the AI leg failed while connecting, a client message arrived
\* after the failure, nothing was sent on the AI leg and the client leg closed.
C12_Witness ==
  \E s \in DOMAIN sess :
    /\ FailedBeforeOpen(s)
    /\ sess[s].aiState = "CLOSED"
    /\ sess[s].clientState = "CLOSED"
    /\ sess[s].closeCalls.client = 1
    /\ Len(sess[s].inLog) = 1
    /\ sess[s].inLog[1].at = "CLOSING"
    /\ sess[s].aiSent = << >>

\* The sources of the frames of a sequence of frames.
Sources(frames) == {frames[k].src : k \in DOMAIN frames}

\* frames2 is frames1, or frames1 and one more frame from a source that has no
\* frame in frames1.
SameOrOneNew(frames1, frames2) ==
  \/ frames2 = frames1
  \/ /\ Len(frames2) = Len(frames1) + 1
     /\ SubSeq(frames2, 1, Len(frames1)) = frames1
     /\ frames2[Len(frames2)].src \notin Sources(frames1)

\* C13: every session has opened exactly one socket to the speech service, one
\* session exists per delegated upgrade, a leg that is closing or closed never
\* leaves that state and is sent nothing more, and no step sends again a frame
\* for a message that already has one.
C13_NoReconnectNoResend ==
  /\ [](/\ Len(sess) = Len(delegated)
        /\ \A s \in DOMAIN sess : sess[s].aiConnects = 1)
  /\ [][\A s \in DOMAIN InitSessions :
          /\ sess[s].aiState \in {"CLOSING", "CLOSED"} =>
               /\ sess'[s].aiState \in {"CLOSING", "CLOSED"}
               /\ sess'[s].aiSent = sess[s].aiSent
          /\ sess[s].clientState \in {"CLOSING", "CLOSED"} =>
               /\ sess'[s].clientState \in {"CLOSING", "CLOSED"}
               /\ sess'[s].clientSent = sess[s].clientSent
          /\ SameOrOneNew(sess[s].aiSent, sess'[s].aiSent)
          /\ SameOrOneNew(sess[s].clientSent, sess'[s].clientSent)]_vars

\* C13 witness: the AI leg of an active session closed, a client message that
\* arrived afterwards was not sent, and the session still has its one socket.
C13_Witness ==
  \E s \in DOMAIN sess :
    /\ sess[s].aiState = "CLOSED"
    /\ sess[s].aiConnects = 1
    /\ Len(sess[s].inLog) = 2
    /\ sess[s].inLog[1].at = "OPEN"
    /\ sess[s].inLog[2].at = "CLOSED"
    /\ Len(sess[s].aiSent) = 2

\* C14: with two concurrent sessions, a step changes at most one session: the
\* legs, timers, logs and sent frames of every other session are the same
\* after it, in particular after a step that tears a session down.
C14_TeardownIsLocal ==
  [][/\ DOMAIN sess' = DOMAIN sess
     /\ \A s \in DOMAIN sess :
          sess'[s] # sess[s] =>
            \A t \in DOMAIN sess \ {s} : sess'[t] = sess[t]]_vars

\* C14 witness: one session is torn down with its timers cancelled while the
\* other has both legs open, both timers running and a forwarded message.
C14_Witness ==
  \E s, t \in DOMAIN sess :
    /\ s # t
    /\ TornDown(s)
    /\ sess[s].kaClient = "cleared"
    /\ sess[s].kaAi = "cleared"
    /\ sess[t].clientState = "OPEN"
    /\ sess[t].aiState = "OPEN"
    /\ sess[t].kaClient = "active"
    /\ sess[t].kaAi = "active"
    /\ Len(sess[t].aiSent) = 2

\* The calls of recallFetch: those that ended, and the running one.
RecallRuns ==
  {rf.ended[k] : k \in DOMAIN rf.ended}
    \cup (IF rf.pc = "idle" THEN {}
          ELSE {[call |-> rf.call, requests |-> rf.requests,
                 responses |-> rf.responses, outcome |-> "running",
                 result |-> "undefined"]})

\* The responses of a call whose status is not 401, by position.
Not401(run) == {k \in DOMAIN run.responses : run.responses[k].status # 401}

\* C15: every call of recallFetch sends at most two requests, the first with
\* the Bearer header and the second with the Token header, both for the
\* call's method, path and body; the second is sent exactly when the first was
\* answered 401; a call that returns gives the first response whose status is
\* not 401, or the response to the Token request when both are 401.
C15_OrderedFallback ==
  \A run \in RecallRuns :
    /\ Len(run.requests) \in 1..2
    /\ Len(run.responses) <= Len(run.requests)
    /\ run.requests[1].Authorization[1] = "Bearer"
    /\ \A k \in DOMAIN run.requests :
         /\ run.requests[k].method = run.call.method
         /\ run.requests[k].url[2] = run.call.path
         /\ run.requests[k].Authorization[2] = RECALL_API_KEY
    /\ \A k \in DOMAIN run.responses : run.responses[k].to = k
    /\ Len(run.requests) = 2 <=>
         Len(run.responses) >= 1 /\ run.responses[1].status = 401
    /\ Len(run.requests) = 2 => run.requests[2].Authorization[1] = "Token"
    /\ run.outcome = "returned" =>
         IF Not401(run) # {}
         THEN /\ run.result = run.responses[CHOOSE k \in Not401(run) :
                                              \A j \in Not401(run) : k <= j]
              /\ run.result.status # 401
         ELSE /\ Len(run.responses) = 2
              /\ run.result = run.responses[2]
              /\ run.result.to = 2

\* C15 witness: one call was answered 401 and then 200 and returned the
\* second response, another was answered 401 twice and returned the second.
C15_Witness ==
  /\ Len(rf.ended) = 2
  /\ rf.ended[1].outcome = "returned"
  /\ Len(rf.ended[1].requests) = 2
  /\ rf.ended[1].result = [status |-> 200, to |-> 2]
  /\ rf.ended[2].outcome = "returned"
  /\ rf.ended[2].responses = <<[status |-> 401, to |-> 1], [status |-> 401, to |-> 2]>>
  /\ rf.ended[2].result = [status |-> 401, to |-> 2]

\* C16 (as claimed): no liveness timer of a session is running while the
\* session is still connecting to the speech service.
C16_NoTimerWhileConnecting ==
  \A s \in DOMAIN sess :
    sess[s].aiState = "CONNECTING" =>
      sess[s].kaClient # "active" /\ sess[s].kaAi # "active"

\* C16 (amended): while aiWs is connecting, kaAi has not been set and has
\* neither fired nor pinged, and kaClient, set when the session is
\* constructed, runs as long as clientWs has not closed; kaAi is only ever set
\* by the open handler, the one that sends the configuration message.
C16_OnlyClientTimerWhileConnecting ==
  \A s \in DOMAIN sess :
    LET S == sess[s]
    IN /\ S.aiState = "CONNECTING" =>
            /\ S.kaAi = "null"
            /\ S.kaAiStarts = 0
            /\ S.ticks.ai = 0
            /\ S.pings.ai = 0
            /\ S.clientState # "CLOSED" => S.kaClient = "active"
       /\ S.kaAi # "null" =>
            /\ S.aiSent # << >>
            /\ S.aiSent[1] = TextFrame(sessionUpdate, 0)

\* C16 witness: kaClient fired and pinged the client while aiWs was still
\* connecting and kaAi was not set.
C16_Witness ==
  \E s \in DOMAIN sess :
    /\ sess[s].aiState = "CONNECTING"
    /\ sess[s].kaAi = "null"
    /\ sess[s].kaClient = "active"
    /\ sess[s].ticks.client = 1
    /\ sess[s].pings.client = 1

\* C17: a step in which a keepalive timer fires and its ping is not sent
\* changes nothing of the session but the count of firings: both legs keep
\* their states, both timers stay as they were, no close is called, nothing is
\* logged as an error and nothing is sent.
C17_PingFailureSwallowed ==
  [][\A s \in DOMAIN sess :
       (sess'[s].ticks # sess[s].ticks /\ sess'[s].pings = sess[s].pings) =>
         sess'[s] = [sess[s] EXCEPT !.ticks = sess'[s].ticks]]_vars

\* C17 witness: kaClient fired while clientWs was closing, no ping was sent,
\* and the timer is still running with the other leg untouched.
C17_Witness ==
  \E s \in DOMAIN sess :
    /\ sess[s].ticks.client = 1
    /\ sess[s].pings.client = 0
    /\ sess[s].kaClient = "active"
    /\ sess[s].clientState = "CLOSING"
    /\ sess[s].aiState = "OPEN"
    /\ sess[s].closeCalls.ai = 0

\* C18: whenever both legs of a session are closed, neither kaClient nor kaAi
\* is still set to fire, in whichever order the legs closed and whether or not
\* aiWs ever opened.
C18_NoTimerLeak ==
  \A s \in DOMAIN sess :
    (sess[s].clientState = "CLOSED" /\ sess[s].aiState = "CLOSED") =>
      /\ sess[s].kaClient = "cleared"
      /\ sess[s].kaAi \in {"null", "cleared"}
      /\ sess[s].kaAi = "null" <=> sess[s].kaAiStarts = 0

\* C18 witness: both legs closed without aiWs ever opening, after kaClient had
\* fired; kaClient is cleared and kaAi was never set.
C18_Witness ==
  \E s \in DOMAIN sess :
    /\ sess[s].clientState = "CLOSED"
    /\ sess[s].aiState = "CLOSED"
    /\ sess[s].kaAi = "null"
    /\ sess[s].kaClient = "cleared"
    /\ sess[s].ticks.client = 1
    /\ sess[s].closeCalls.client = 1

\* C19: kaAi is set at most once per session, and only by the step in which
\* aiWs opens, a step taken while neither leg has closed and kaAi is still
\* null; it has been set exactly when aiWs has opened.
C19_KaAiStartedOnceByOpen ==
  /\ [](\A s \in DOMAIN sess :
          /\ sess[s].kaAiStarts \in {0, 1}
          /\ sess[s].kaAiStarts = 1 <=> sess[s].kaAi # "null")
  /\ [][\A s \in DOMAIN sess :
          sess'[s].kaAiStarts # sess[s].kaAiStarts =>
            /\ sess[s].aiState = "CONNECTING"
            /\ sess'[s].aiState = "OPEN"
            /\ sess[s].clientState # "CLOSED"
            /\ sess[s].kaAi = "null"
            /\ sess'[s].kaAi = "active"
            /\ sess'[s].kaAiStarts = 1]_vars

\* C19 witness: kaAi was set once, fired, and was cleared; both legs have
\* closed and it has not been set again.
C19_Witness ==
  \E s \in DOMAIN sess :
    /\ sess[s].kaAiStarts = 1
    /\ sess[s].kaAi = "cleared"
    /\ sess[s].ticks.ai = 1
    /\ sess[s].clientState = "CLOSED"
    /\ sess[s].aiState = "CLOSED"

\* The frame is what the bridge sends to the speech service for message m of
\* the relay client: the same text for a text message, the audio envelope of
\* the bytes for a binary one.
IsTranslationOf(frame, m) ==
  IF m.binary
  THEN IsEnvelopeOf(frame, m.data)
  ELSE ~frame.binary /\ frame.data = m.data

\* C20: every frame sent to the speech service is the configuration message
\* or the translation of one message received from the relay client; the
\* configuration message and every client message have at most one frame; and
\* every frame sent to the relay client is the copy of one message received
\* from the speech service, each of which has at most one frame.
C20_NoDuplicateNoFabrication ==
  \A s \in DOMAIN sess :
    LET S == sess[s]
    IN /\ \A k \in DOMAIN S.aiSent :
            IF S.aiSent[k].src = 0
            THEN ~S.aiSent[k].binary /\ S.aiSent[k].data = ConfigText
            ELSE /\ S.aiSent[k].src \in DOMAIN S.inLog
                 /\ IsTranslationOf(S.aiSent[k], S.inLog[S.aiSent[k].src])
       /\ \A i \in {0} \cup DOMAIN S.inLog :
            Cardinality(FramesOf(S.aiSent, i)) <= 1
       /\ Len(S.aiSent) <= S.kaAiStarts + Len(S.inLog)
       /\ \A k \in DOMAIN S.clientSent :
            /\ S.clientSent[k].src \in DOMAIN S.outLog
            /\ S.clientSent[k].binary = S.outLog[S.clientSent[k].src].binary
            /\ S.clientSent[k].data = S.outLog[S.clientSent[k].src].data
       /\ \A i \in DOMAIN S.outLog :
            Cardinality(FramesOf(S.clientSent, i)) <= 1
       /\ Len(S.clientSent) <= Len(S.outLog)

\* C20 witness: the speech service was sent the configuration message and
\* the envelope of one binary client message, and the relay client the copy of
\* one message of the speech service.
C20_Witness ==
  \E s \in DOMAIN sess :
    /\ Len(sess[s].inLog) = 1
    /\ sess[s].inLog[1].binary
    /\ Len(sess[s].outLog) = 1
    /\ Len(sess[s].aiSent) = 2
    /\ sess[s].aiSent[2].src = 1
    /\ Len(sess[s].clientSent) = 1

====
